---------------------------- MODULE Spec2Model ----------------------------
(***************************************************************************)
(* Row search routing and queriable-field resolution (sdk/app/rows/search) *)
(* together with the document-store wrapper (db/db).                       *)
(*                                                                         *)
(* Strings are sequences of one-character strings, so that toLowerCase,    *)
(* template-literal concatenation and includes() are computed character    *)
(* by character as the code computes them.                                 *)
(***************************************************************************)
EXTENDS Integers, Sequences, FiniteSets, TLC

(***************************************************************************)
(* Bounds of the model.                                                    *)
(***************************************************************************)
\* deepest chain of nested extractTableFields calls that is followed
MaxDepth == 8

(***************************************************************************)
(* Optional values: None is undefined, Some(x) a defined value.            *)
(***************************************************************************)
None == <<>>
Some(x) == <<x>>
IsSome(o) == Len(o) = 1
Get(o) == o[1]

(***************************************************************************)
(* String helpers.                                                         *)
(***************************************************************************)
UpperChars == <<"A", "B", "C", "D", "E", "F", "G", "H", "I", "J", "K", "L", "M",
                "N", "O", "P", "Q", "R", "S", "T", "U", "V", "W", "X", "Y", "Z">>
LowerChars == <<"a", "b", "c", "d", "e", "f", "g", "h", "i", "j", "k", "l", "m",
                "n", "o", "p", "q", "r", "s", "t", "u", "v", "w", "x", "y", "z">>

LowerChar(ch) ==
    IF \E i \in DOMAIN UpperChars : UpperChars[i] = ch
    THEN LowerChars[CHOOSE i \in DOMAIN UpperChars : UpperChars[i] = ch]
    ELSE ch

\* String.prototype.toLowerCase
toLowerCase(s) == [i \in DOMAIN s |-> LowerChar(s[i])]

\* Array.prototype.includes
includes(arr, x) == \E i \in DOMAIN arr : arr[i] = x

Range(arr) == {arr[i] : i \in DOMAIN arr}

Dot == <<".">>
Underscore == <<"_">>

(***************************************************************************)
(* Names used by the table store and by the requests.                      *)
(***************************************************************************)
IdField == <<"_", "i", "d">>

ta_t == <<"t", "a", "_", "t">>
ta_a == <<"t", "a", "_", "a">>
ta_b == <<"t", "a", "_", "b">>
ta_s == <<"t", "a", "_", "s">>
ta_p == <<"t", "a", "_", "p">>
ta_q == <<"t", "a", "_", "q">>
ta_r == <<"t", "a", "_", "r">>
ta_u == <<"t", "a", "_", "u">>
ta_v == <<"t", "a", "_", "v">>
ta_w == <<"t", "a", "_", "w">>
ta_d == <<"t", "a", "_", "d">>
ta_o == <<"t", "a", "_", "o">>
ta_k == <<"t", "a", "_", "k">>
ta_g == <<"t", "a", "_", "g">>
ta_c == <<"t", "a", "_", "c">>
ta_m == <<"t", "a", "_", "m">>
ds_x == <<"d", "s", "_", "x">>

n_Tee == <<"T", "e", "e">>
n_Ext == <<"E", "x", "t">>
n_Aa == <<"A", "a">>
n_Bee == <<"B", "e", "e">>
n_Self == <<"S", "e", "l", "f">>
n_Pp == <<"P", "p">>
n_Qq == <<"Q", "q">>
n_Rr == <<"R", "r">>
n_Uu == <<"U", "u">>
n_Vv == <<"V", "v">>
n_Ww == <<"W", "w">>
n_Dd == <<"D", "d">>
n_orders == <<"o", "r", "d", "e", "r", "s">>
n_customers == <<"c", "u", "s", "t", "o", "m", "e", "r", "s">>
n_Gg == <<"G", "g">>
n_Cased == <<"C", "a", "s", "e", "d">>

f_age == <<"a", "g", "e">>
f_AGE == <<"A", "G", "E">>
f_Name == <<"N", "a", "m", "e">>
f_name == <<"n", "a", "m", "e">>
f_secret == <<"s", "e", "c", "r", "e", "t">>
f_toB == <<"t", "o", "B">>
f_title == <<"t", "i", "t", "l", "e">>
f_toA == <<"t", "o", "A">>
f_label == <<"l", "a", "b", "e", "l">>
f_parent == <<"p", "a", "r", "e", "n", "t">>
f_p == <<"p">>
f_toQ == <<"t", "o", "Q">>
f_q == <<"q">>
f_toR == <<"t", "o", "R">>
f_r == <<"r">>
f_toP == <<"t", "o", "P">>
f_u == <<"u">>
f_toV == <<"t", "o", "V">>
f_toW == <<"t", "o", "W">>
f_v == <<"v">>
f_toU == <<"t", "o", "U">>
f_w == <<"w">>
f_d == <<"d">>
f_toM == <<"t", "o", "M">>
f_status == <<"s", "t", "a", "t", "u", "s">>
f_customer == <<"c", "u", "s", "t", "o", "m", "e", "r">>
f_email == <<"e", "m", "a", "i", "l">>
f_home == <<"h", "o", "m", "e">>
f_first == <<"f", "i", "r", "s", "t">>
f_second == <<"s", "e", "c", "o", "n", "d">>
f_ghost == <<"g", "h", "o", "s", "t">>

s_ascending == <<"a", "s", "c", "e", "n", "d", "i", "n", "g">>
s_descending == <<"d", "e", "s", "c", "e", "n", "d", "i", "n", "g">>
s_ASCENDING == <<"A", "S", "C", "E", "N", "D", "I", "N", "G">>
s_Descending == <<"D", "e", "s", "c", "e", "n", "d", "i", "n", "g">>
s_Up == <<"U", "p">>
s_up == <<"u", "p">>
s_empty == <<>>

(***************************************************************************)
(* Enumerations of @budibase/types.                                        *)
(***************************************************************************)
\* FieldType.LINK and the other field types met in the schemas
LINK == "link"
TEXT == "string"
NUMBER == "number"

\* EmptyFilterOption
RETURN_ALL == "all"
RETURN_NONE == "none"

\* SortOrder
SortOrder == {s_ascending, s_descending}

(***************************************************************************)
(* Table definitions (Table, FieldSchema).  keys is Object.keys(schema),   *)
(* in insertion order.                                                     *)
(***************************************************************************)
Plain(type) == [type |-> type, visible |-> "undefined", tableId |-> <<>>, name |-> <<>>]
Shown(type) == [type |-> type, visible |-> "true", tableId |-> <<>>, name |-> <<>>]
Hidden(type) == [type |-> type, visible |-> "false", tableId |-> <<>>, name |-> <<>>]
Link(name, tableId) == [type |-> LINK, visible |-> "undefined", tableId |-> tableId, name |-> name]

T2(k1, d1, k2, d2) == [k \in {k1, k2} |-> IF k = k1 THEN d1 ELSE d2]
T3(k1, d1, k2, d2, k3, d3) ==
    [k \in {k1, k2, k3} |-> IF k = k1 THEN d1 ELSE IF k = k2 THEN d2 ELSE d3]

MkTable(id, name, keys, schema) == [_id |-> id, name |-> name, keys |-> keys, schema |-> schema]

TableList ==
    << \* a table without relationships: a mixed-case key and a hidden field
       MkTable(ta_t, n_Tee, <<f_age, f_Name, f_secret>>,
               T3(f_age, Plain(NUMBER), f_Name, Shown(TEXT), f_secret, Hidden(TEXT))),
       \* a table of an external datasource
       MkTable(ds_x, n_Ext, <<f_age, f_secret>>,
               T2(f_age, Plain(NUMBER), f_secret, Hidden(TEXT))),
       \* a two-table cycle: ta_a <-> ta_b
       MkTable(ta_a, n_Aa, <<f_name, f_toB>>,
               T2(f_name, Plain(TEXT), f_toB, Link(f_toB, ta_b))),
       MkTable(ta_b, n_Bee, <<f_title, f_toA>>,
               T2(f_title, Plain(TEXT), f_toA, Link(f_toA, ta_a))),
       \* a self-referencing table
       MkTable(ta_s, n_Self, <<f_label, f_parent>>,
               T2(f_label, Plain(TEXT), f_parent, Link(f_parent, ta_s))),
       \* a cycle of three tables without reverse link fields
       MkTable(ta_p, n_Pp, <<f_p, f_toQ>>,
               T2(f_p, Plain(TEXT), f_toQ, Link(f_toQ, ta_q))),
       MkTable(ta_q, n_Qq, <<f_q, f_toR>>,
               T2(f_q, Plain(TEXT), f_toR, Link(f_toR, ta_r))),
       MkTable(ta_r, n_Rr, <<f_r, f_toP>>,
               T2(f_r, Plain(TEXT), f_toP, Link(f_toP, ta_p))),
       \* a cycle of three tables in which every link has its reverse field
       MkTable(ta_u, n_Uu, <<f_u, f_toV, f_toW>>,
               T3(f_u, Plain(TEXT), f_toV, Link(f_toV, ta_v), f_toW, Link(f_toW, ta_w))),
       MkTable(ta_v, n_Vv, <<f_v, f_toU, f_toW>>,
               T3(f_v, Plain(TEXT), f_toU, Link(f_toU, ta_u), f_toW, Link(f_toW, ta_w))),
       MkTable(ta_w, n_Ww, <<f_w, f_toU, f_toV>>,
               T3(f_w, Plain(TEXT), f_toU, Link(f_toU, ta_u), f_toV, Link(f_toV, ta_v))),
       \* a link to a table that does not exist
       MkTable(ta_d, n_Dd, <<f_d, f_toM>>,
               T2(f_d, Plain(TEXT), f_toM, Link(f_toM, ta_m))),
       \* orders -> customers -> Tee, without cycle
       MkTable(ta_o, n_orders, <<f_status, f_customer>>,
               T2(f_status, Plain(TEXT), f_customer, Link(f_customer, ta_k))),
       MkTable(ta_k, n_customers, <<f_email, f_home>>,
               T2(f_email, Plain(TEXT), f_home, Link(f_home, ta_t))),
       \* two link fields to the same table
       MkTable(ta_g, n_Gg, <<f_first, f_second>>,
               T2(f_first, Link(f_first, ta_k), f_second, Link(f_second, ta_k))),
       \* two keys that differ by case only, one of them hidden
       MkTable(ta_c, n_Cased, <<f_Name, f_name>>,
               T2(f_Name, Plain(TEXT), f_name, Hidden(TEXT))) >>

TableIds == {TableList[i]._id : i \in DOMAIN TableList}

\* the table definitions by identifier
TableStore == [id \in TableIds |-> TableList[CHOOSE i \in DOMAIN TableList : TableList[i]._id = id]]

\* identifiers a request may name: every table of the store and a missing one
RequestTableIds == TableIds \cup {ta_m}

ExternalTableIds == {ds_x}

(***************************************************************************)
(* Collaborators of search.                                                *)
(***************************************************************************)
\* isExternalTableID: whether a connector owns the table
isExternalTableID(tableId) == tableId \in ExternalTableIds

\* sdk.tables.getTable: Some(table), or None when it fails NotFound
getTable(tableId) == IF tableId \in TableIds THEN Some(TableStore[tableId]) ELSE None

\* A filter tree is [equal, onEmptyFilter]: equal is the one filter group, the
\* set of field paths it has a condition on, or None when the request holds
\* null in its place; the conditions' values are not modelled.
EmptyQuery == [equal |-> None, onEmptyFilter |-> "undefined"]

\* dataFilters.cleanupQuery: an empty group stands in place of a null one
cleanupQuery(query) ==
    [query EXCEPT !.equal = IF IsSome(@) THEN @ ELSE Some({})]

\* dataFilters.hasFilters: some condition is active
hasFilters(query) == IsSome(query.equal) /\ Get(query.equal) # {}

\* removeInvalidFilters: the conditions on a path outside validFields are dropped
removeInvalidFilters(query, validFields) ==
    [query EXCEPT !.equal =
        IF IsSome(@) THEN Some({f \in Get(@) : includes(validFields, f)}) ELSE @]

(***************************************************************************)
(* Results of a call.                                                      *)
(***************************************************************************)
Pending == [status |-> "pending", rows |-> <<>>, error |-> "", from |-> ""]
Ok(rows) == [status |-> "ok", rows |-> rows, error |-> "", from |-> ""]
Err(error, from) == [status |-> "error", rows |-> <<>>, error |-> error, from |-> from]

\* what an executor may answer: rows, or a failure of its own
ExecutorOutcomes == {"none", "rows", "fails"}
ExecutorResult(outcome, executor) ==
    IF outcome = "fails" THEN Err("BackendFailure", executor)
    ELSE IF outcome = "rows" THEN Ok(<<"row1", "row2">>)
    ELSE Ok(<<>>)

(***************************************************************************)
(* pickApi and the decisions of search.                                    *)
(***************************************************************************)
pickApi_AlwaysInternal(tableId) == "internal"

pickApi(tableId) ==
    IF isExternalTableID(tableId) THEN "external" ELSE "internal"

ShortCircuits_ReturnAll(query) ==
    ~hasFilters(query) /\ query.onEmptyFilter = RETURN_ALL

\* the condition of the early return of search
ShortCircuits(query) ==
    ~hasFilters(query) /\ query.onEmptyFilter = RETURN_NONE

NormalizeSortOrder_AsIs(sortOrder) == sortOrder

\* if (options.sortOrder) options.sortOrder = options.sortOrder.toLowerCase()
NormalizeSortOrder(sortOrder) ==
    IF IsSome(sortOrder) /\ Get(sortOrder) # <<>>
    THEN Some(toLowerCase(Get(sortOrder)))
    ELSE sortOrder

\* Object.keys(table.schema).filter(f => table.schema[f].visible !== false)
VisibleTableFields(table) ==
    SelectSeq(table.keys, LAMBDA f : table.schema[f].visible # "false")

\* options.fields after the visibility filter
RequestedFields(fields, table) ==
    IF IsSome(fields)
    THEN LET visibleTableFields == VisibleTableFields(table)
             tableFields == [i \in DOMAIN visibleTableFields |->
                                toLowerCase(visibleTableFields[i])]
         IN  SelectSeq(Get(fields), LAMBDA f : includes(tableFields, toLowerCase(f)))
    ELSE VisibleTableFields(table)

SanitizedQuery_Unfiltered(query, queriableFields) == query

\* options.query = removeInvalidFilters(options.query, await getQueriableFields(..))
SanitizedQuery(query, queriableFields) ==
    removeInvalidFilters(query, queriableFields)

SelectExecutor_SqsFirst(isExternalTable, isSqsEnabledForTenant) ==
    IF isSqsEnabledForTenant THEN "internal.sqs"
    ELSE IF isExternalTable THEN "external"
    ELSE "internal.lucene"

\* the if / else if / else that picks the executor of search
SelectExecutor(isExternalTable, isSqsEnabledForTenant) ==
    IF isExternalTable THEN "external"
    ELSE IF isSqsEnabledForTenant THEN "internal.sqs"
    ELSE "internal.lucene"

(***************************************************************************)
(* getQueriableFields.  A frame is one activation of extractTableFields:   *)
(* table is its table's _id, allowed its allowedFields, fields the keys    *)
(* its for loop runs over, i the index of the key it is at, result its     *)
(* result array, entry the content of handledTables when it was entered.   *)
(***************************************************************************)
\* the template literal `${a}_${b}`
EdgeKey(a, b) == a \o Underscore \o b

GuardKey_Reversed(table, subSchema) == EdgeKey(subSchema.tableId, table._id)

\* the key looked up in handledTables before a link field is followed
GuardKey(table, subSchema) == EdgeKey(table._id, subSchema.tableId)

\* the key added to handledTables when a link field is followed
MarkKey(table, subSchema) == EdgeKey(subSchema.tableId, table._id)

\* a new activation of extractTableFields(table, allowedFields)
NewFrame(table, allowedFields, handledTables) ==
    [table |-> table._id,
     allowed |-> allowedFields,
     fields |-> SelectSeq(table.keys, LAMBDA f : includes(allowedFields, f)),
     i |-> 1,
     result |-> <<>>,
     entry |-> handledTables]

\* The for loop of an activation, run from its current key to its next await:
\* at "getTable" it waits for the table of the link field fields[i], at
\* "return" it has run through its keys.
RECURSIVE RunLoop(_, _)
RunLoop(frame, handledTables) ==
    IF frame.i > Len(frame.fields)
    THEN [frame |-> frame, handledTables |-> handledTables, at |-> "return"]
    ELSE LET table == TableStore[frame.table]
             field == frame.fields[frame.i]
             subSchema == table.schema[field]
         IN  IF subSchema.type = LINK
             THEN IF GuardKey(table, subSchema) \in handledTables
                  THEN RunLoop([frame EXCEPT !.i = @ + 1], handledTables)
                  ELSE [frame |-> frame,
                        handledTables |-> handledTables \cup {MarkKey(table, subSchema)},
                        at |-> "getTable"]
             ELSE RunLoop([frame EXCEPT !.result = Append(@, field), !.i = @ + 1],
                          handledTables)

WithRelatedFields_NameOnly(result, subSchema, relatedTable, relatedFields) ==
    result
      \o [i \in DOMAIN relatedFields |-> subSchema.name \o Dot \o relatedFields[i]]

\* the two pushes that follow the recursion into relatedTable
WithRelatedFields(result, subSchema, relatedTable, relatedFields) ==
    result
      \o [i \in DOMAIN relatedFields |-> subSchema.name \o Dot \o relatedFields[i]]
      \o [i \in DOMAIN relatedFields |-> relatedTable.name \o Dot \o relatedFields[i]]

QueriableFields_Unseeded(rootResult) == rootResult

\* the array getQueriableFields returns, given the root activation's result
QueriableFields(rootResult) == <<IdField>> \o rootResult

(***************************************************************************)
(* Requests.                                                               *)
(***************************************************************************)
SortOrderTokens == {None, Some(s_empty), Some(s_descending), Some(s_ASCENDING), Some(s_Up)}

KeysOf(tableId) == IF tableId \in TableIds THEN TableStore[tableId].keys ELSE <<>>

\* other spellings of field names
Spellings == {f_age, f_AGE, f_Name, f_name}

\* names a request may list in fields: the table's keys, other spellings of
\* them, and a name that is no key
FieldNamePool(tableId) ==
    Range(KeysOf(tableId)) \cup {f_ghost}
      \cup {s \in Spellings :
              \E k \in Range(KeysOf(tableId)) : toLowerCase(k) = toLowerCase(s)}

FieldLists(tableId) ==
    {None, Some(<<>>), Some(KeysOf(tableId))}
      \cup {Some(<<f>>) : f \in FieldNamePool(tableId)}

\* paths through the link fields of a table, under both qualifiers
LinkedPaths(tableId) ==
    UNION {LET subSchema == TableStore[tableId].schema[k]
           IN  IF subSchema.type = LINK /\ subSchema.tableId \in TableIds
               THEN LET related == TableStore[subSchema.tableId]
                    IN  {subSchema.name \o Dot \o related.keys[1],
                         related.name \o Dot \o related.keys[1]}
               ELSE {} : k \in Range(KeysOf(tableId))}

\* paths a request may filter on
FilterPool(tableId) ==
    Range(KeysOf(tableId)) \cup {f_ghost, IdField}
      \cup (IF tableId \in TableIds THEN LinkedPaths(tableId) ELSE {})

FilterGroups(tableId) ==
    {None, Some({}), Some(FilterPool(tableId))}
      \cup {Some({f}) : f \in FilterPool(tableId)}

Queries(tableId) ==
    {None} \cup {Some([equal |-> g, onEmptyFilter |-> e]) :
                    g \in FilterGroups(tableId),
                    e \in {"undefined", RETURN_ALL, RETURN_NONE}}

NoRequest == [op |-> "none", tableId |-> <<>>, query |-> None, sortOrder |-> None, fields |-> None]
NoOptions == [tableId |-> <<>>, query |-> EmptyQuery, sortOrder |-> None, fields |-> None]

\* one entry of the log of calls to collaborators; from is the _id of the table
\* whose activation of extractTableFields made the call, when one did
Call(api, fn, tableId, options) ==
    [api |-> api, fn |-> fn, tableId |-> tableId, options |-> options, from |-> <<>>]

Executors == {"external", "internal.sqs", "internal.lucene"}
Backends == {"external", "internal"}

(***************************************************************************)
(* State.                                                                  *)
(***************************************************************************)
Calls == {"call1"}

VARIABLES
    sqsEnabled,     \* dbCore.isSqsEnabledForTenant()
    pc,             \* where each call stands: the await it is suspended at
    request,        \* the arguments each call was made with
    options,        \* options of search, as reassigned so far
    table,          \* the table search resolved
    stack,          \* the activations of extractTableFields, outermost first
    handledTables,  \* handledTables of getQueriableFields
    queriable,      \* what getQueriableFields returned
    calls,          \* the calls made to collaborators, in order
    response,       \* what the call returned or failed with
    isTest,         \* env.isTest()
    memoryLeakCheck,\* env.MEMORY_LEAK_CHECK
    Pouch,          \* let Pouch
    initialised,    \* let initialised
    openDbs,        \* const openDbs
    dbList,         \* const dbList
    dbs,            \* the database objects handed out so far
    dbOutcome       \* how the last call of the database module ended

searchVars == <<sqsEnabled, pc, request, options, table, stack, handledTables,
                queriable, calls, response>>

dbVars == <<isTest, memoryLeakCheck, Pouch, initialised, openDbs, dbList, dbs,
           dbOutcome>>

vars == <<searchVars, dbVars>>

\* how a call of the database module ended: threw is the message of the error
\* it threw ("" when it returned), initialised the flag when it was called,
\* db the object it was given or made (0: none), closeRaised whether db.close
\* raised, before the content of openDbs when it was called
Outcome(op, threw, wasInitialised, db, closeRaised, before) ==
    [op |-> op, threw |-> threw, initialised |-> wasInitialised, db |-> db,
     closeRaised |-> closeRaised, before |-> before]

NoOutcome == Outcome("none", "", FALSE, 0, FALSE, <<>>)

\* the module as it is loaded: nothing opened, init not called
ModuleLoaded ==
    /\ Pouch = "undefined"
    /\ initialised = FALSE
    /\ openDbs = <<>>
    /\ dbList = {}
    /\ dbs = <<>>
    /\ dbOutcome = NoOutcome

Init ==
    /\ sqsEnabled \in BOOLEAN
    /\ pc = [c \in Calls |-> "idle"]
    /\ request = [c \in Calls |-> NoRequest]
    /\ options = [c \in Calls |-> NoOptions]
    /\ table = [c \in Calls |-> None]
    /\ stack = [c \in Calls |-> <<>>]
    /\ handledTables = [c \in Calls |-> {}]
    /\ queriable = [c \in Calls |-> None]
    /\ calls = [c \in Calls |-> <<>>]
    /\ response = [c \in Calls |-> Pending]
    /\ isTest = FALSE
    /\ memoryLeakCheck = FALSE
    /\ ModuleLoaded

\* pc after the for loop of the innermost activation ran to its next await
PcAt(run) == IF run.at = "getTable" THEN "getRelatedTable" ELSE "extractReturn"

\* the getTable call an activation suspended at a link field has made
RelatedCall(run) ==
    IF run.at = "getTable"
    THEN LET subSchema ==
                 TableStore[run.frame.table].schema[run.frame.fields[run.frame.i]]
         IN  <<[Call("sdk.tables", "getTable", subSchema.tableId, None)
                   EXCEPT !.from = run.frame.table]>>
    ELSE <<>>

(***************************************************************************)
(* search, up to its first await: cleanup, the early return, the sort      *)
(* order, and the call of getTable.  fixupFilterArrays repairs the values  *)
(* of array conditions, which a filter tree of the model does not hold.    *)
(***************************************************************************)
SearchOf(c, tableId, sortOrder, query, fields) ==
    /\ pc[c] = "idle"
    /\   LET cleaned == cleanupQuery(IF IsSome(query) THEN Get(query) ELSE EmptyQuery)
             cleanup == <<Call("dataFilters", "cleanupQuery", tableId, None),
                          Call("dataFilters", "fixupFilterArrays", tableId, None)>>
         IN  /\ request' = [request EXCEPT
                   ![c] = [op |-> "search", tableId |-> tableId, query |-> query,
                           sortOrder |-> sortOrder, fields |-> fields]]
             /\ IF ShortCircuits(cleaned)
                THEN /\ options' = [options EXCEPT
                           ![c] = [tableId |-> tableId, query |-> cleaned,
                                   sortOrder |-> sortOrder, fields |-> fields]]
                     /\ calls' = [calls EXCEPT ![c] = cleanup]
                     /\ response' = [response EXCEPT ![c] = Ok(<<>>)]
                     /\ pc' = [pc EXCEPT ![c] = "done"]
                ELSE /\ options' = [options EXCEPT
                           ![c] = [tableId |-> tableId, query |-> cleaned,
                                   sortOrder |-> NormalizeSortOrder(sortOrder),
                                   fields |-> fields]]
                     /\ calls' = [calls EXCEPT
                           ![c] = cleanup \o
                                  <<Call("sdk.tables", "getTable", tableId, None)>>]
                     /\ response' = response
                     /\ pc' = [pc EXCEPT ![c] = "getTable"]
    /\ UNCHANGED <<sqsEnabled, table, stack, handledTables, queriable>>

\* search, called with any request of the model
Search(c) ==
    /\ pc[c] = "idle"
    /\ \E tableId \in RequestTableIds, sortOrder \in SortOrderTokens :
       \E query \in Queries(tableId), fields \in FieldLists(tableId) :
           SearchOf(c, tableId, sortOrder, query, fields)

GetTableReturns_SharedHandled(c) ==
    /\ pc[c] = "getTable"
    /\ LET got == getTable(options[c].tableId)
       IN  IF ~IsSome(got)
           THEN /\ response' = [response EXCEPT ![c] = Err("NotFound", "sdk.tables")]
                /\ pc' = [pc EXCEPT ![c] = "failed"]
                /\ UNCHANGED <<options, table, stack, handledTables, calls>>
           ELSE LET tbl == Get(got)
                    fields == RequestedFields(options[c].fields, tbl)
                    handled == {tbl._id} \cup UNION {handledTables[d] : d \in DOMAIN pc}
                    run == RunLoop(NewFrame(tbl, fields, handled), handled)
                IN  /\ table' = [table EXCEPT ![c] = Some(tbl._id)]
                    /\ options' = [options EXCEPT ![c].fields = Some(fields)]
                    /\ stack' = [stack EXCEPT ![c] = <<run.frame>>]
                    /\ handledTables' = [handledTables EXCEPT ![c] = run.handledTables]
                    /\ calls' = [calls EXCEPT
                          ![c] = @ \o <<Call("utils", "searchInputMapping", tbl._id, None)>>
                                   \o RelatedCall(run)]
                    /\ pc' = [pc EXCEPT ![c] = PcAt(run)]
                    /\ response' = response
    /\ UNCHANGED <<sqsEnabled, request, queriable>>

(***************************************************************************)
(* getTable of the searched table answers: search fails, or goes on to     *)
(* searchInputMapping (which rewrites the values of conditions on user     *)
(* columns, not modelled), the visibility filter, and getQueriableFields   *)
(* up to its first await.                                                  *)
(***************************************************************************)
GetTableReturns(c) ==
    /\ pc[c] = "getTable"
    /\ LET got == getTable(options[c].tableId)
       IN  IF ~IsSome(got)
           THEN /\ response' = [response EXCEPT ![c] = Err("NotFound", "sdk.tables")]
                /\ pc' = [pc EXCEPT ![c] = "failed"]
                /\ UNCHANGED <<options, table, stack, handledTables, calls>>
           ELSE LET tbl == Get(got)
                    fields == RequestedFields(options[c].fields, tbl)
                    handled == {tbl._id}
                    run == RunLoop(NewFrame(tbl, fields, handled), handled)
                IN  /\ table' = [table EXCEPT ![c] = Some(tbl._id)]
                    /\ options' = [options EXCEPT ![c].fields = Some(fields)]
                    /\ stack' = [stack EXCEPT ![c] = <<run.frame>>]
                    /\ handledTables' = [handledTables EXCEPT ![c] = run.handledTables]
                    /\ calls' = [calls EXCEPT
                          ![c] = @ \o <<Call("utils", "searchInputMapping", tbl._id, None)>>
                                   \o RelatedCall(run)]
                    /\ pc' = [pc EXCEPT ![c] = PcAt(run)]
                    /\ response' = response
    /\ UNCHANGED <<sqsEnabled, request, queriable>>

\* the innermost activation of extractTableFields and the link field it is at
Top(c) == stack[c][Len(stack[c])]
TopSubSchema(c) == TableStore[Top(c).table].schema[Top(c).fields[Top(c).i]]

GetRelatedTableReturns_Swallow(c) ==
    /\ pc[c] = "getRelatedTable"
    /\ Len(stack[c]) < MaxDepth
    /\ LET got == getTable(TopSubSchema(c).tableId)
           run == IF IsSome(got)
                  THEN RunLoop(NewFrame(Get(got), Get(got).keys, handledTables[c]),
                               handledTables[c])
                  ELSE RunLoop([Top(c) EXCEPT !.i = @ + 1], handledTables[c])
       IN  /\ stack' = [stack EXCEPT
                 ![c] = IF IsSome(got) THEN Append(@, run.frame)
                        ELSE SubSeq(@, 1, Len(@) - 1) \o <<run.frame>>]
           /\ handledTables' = [handledTables EXCEPT ![c] = run.handledTables]
           /\ calls' = [calls EXCEPT ![c] = @ \o RelatedCall(run)]
           /\ pc' = [pc EXCEPT ![c] = PcAt(run)]
    /\ UNCHANGED <<sqsEnabled, request, options, table, queriable, response>>

GetRelatedTableReturns_TopLevelFields(c) ==
    /\ pc[c] = "getRelatedTable"
    /\ Len(stack[c]) < MaxDepth
    /\ LET got == getTable(TopSubSchema(c).tableId)
       IN  IF ~IsSome(got)
           THEN /\ response' = [response EXCEPT ![c] = Err("NotFound", "sdk.tables")]
                /\ pc' = [pc EXCEPT ![c] = "failed"]
                /\ stack' = [stack EXCEPT ![c] = <<>>]
                /\ UNCHANGED <<handledTables, calls>>
           ELSE LET relatedTable == Get(got)
                    run == RunLoop(NewFrame(relatedTable, Get(options[c].fields),
                                            handledTables[c]),
                                   handledTables[c])
                IN  /\ stack' = [stack EXCEPT ![c] = Append(@, run.frame)]
                    /\ handledTables' = [handledTables EXCEPT ![c] = run.handledTables]
                    /\ calls' = [calls EXCEPT ![c] = @ \o RelatedCall(run)]
                    /\ pc' = [pc EXCEPT ![c] = PcAt(run)]
                    /\ response' = response
    /\ UNCHANGED <<sqsEnabled, request, options, table, queriable>>

(***************************************************************************)
(* getTable of a related table answers: the failure leaves every           *)
(* activation and search, or extractTableFields is entered for the related *)
(* table with all its keys allowed and runs to its next await.             *)
(***************************************************************************)
GetRelatedTableReturns(c) ==
    /\ pc[c] = "getRelatedTable"
    /\ Len(stack[c]) < MaxDepth
    /\ LET got == getTable(TopSubSchema(c).tableId)
       IN  IF ~IsSome(got)
           THEN /\ response' = [response EXCEPT ![c] = Err("NotFound", "sdk.tables")]
                /\ pc' = [pc EXCEPT ![c] = "failed"]
                /\ stack' = [stack EXCEPT ![c] = <<>>]
                /\ UNCHANGED <<handledTables, calls>>
           ELSE LET relatedTable == Get(got)
                    run == RunLoop(NewFrame(relatedTable, relatedTable.keys,
                                            handledTables[c]),
                                   handledTables[c])
                IN  /\ stack' = [stack EXCEPT ![c] = Append(@, run.frame)]
                    /\ handledTables' = [handledTables EXCEPT ![c] = run.handledTables]
                    /\ calls' = [calls EXCEPT ![c] = @ \o RelatedCall(run)]
                    /\ pc' = [pc EXCEPT ![c] = PcAt(run)]
                    /\ response' = response
    /\ UNCHANGED <<sqsEnabled, request, options, table, queriable>>

(***************************************************************************)
(* A nested extractTableFields returns: the activation that awaited it     *)
(* pushes the related fields under both qualifiers and goes on with its    *)
(* loop to its next await.                                                 *)
(***************************************************************************)
ExtractReturns(c) ==
    /\ pc[c] = "extractReturn"
    /\ Len(stack[c]) > 1
    /\ LET relatedFields == Top(c).result
           relatedTable == TableStore[Top(c).table]
           caller == stack[c][Len(stack[c]) - 1]
           subSchema == TableStore[caller.table].schema[caller.fields[caller.i]]
           run == RunLoop([caller EXCEPT
                              !.result = WithRelatedFields(@, subSchema, relatedTable,
                                                           relatedFields),
                              !.i = @ + 1],
                          handledTables[c])
       IN  /\ stack' = [stack EXCEPT ![c] = SubSeq(@, 1, Len(@) - 2) \o <<run.frame>>]
           /\ handledTables' = [handledTables EXCEPT ![c] = run.handledTables]
           /\ calls' = [calls EXCEPT ![c] = @ \o RelatedCall(run)]
           /\ pc' = [pc EXCEPT ![c] = PcAt(run)]
    /\ UNCHANGED <<sqsEnabled, request, options, table, queriable, response>>

QueriableFieldsReturn_DispatchFirst(c) ==
    /\ pc[c] = "extractReturn"
    /\ Len(stack[c]) = 1
    /\ LET result == QueriableFields(Top(c).result)
           sanitized == [options[c] EXCEPT !.query = SanitizedQuery(@, result)]
           executor == SelectExecutor(isExternalTableID(options[c].tableId), sqsEnabled)
       IN  /\ queriable' = [queriable EXCEPT ![c] = Some(result)]
           /\ options' = [options EXCEPT ![c] = sanitized]
           /\ calls' = [calls EXCEPT
                 ![c] = @ \o <<Call(executor, "search", Get(table[c]), Some(sanitized)),
                               Call("queryUtils", "removeInvalidFilters",
                                    options[c].tableId, None)>>]
    /\ stack' = [stack EXCEPT ![c] = <<>>]
    /\ pc' = [pc EXCEPT ![c] = "executor"]
    /\ UNCHANGED <<sqsEnabled, request, table, handledTables, response>>

(***************************************************************************)
(* The outermost extractTableFields returns: getQueriableFields returns,   *)
(* search sanitizes the filters and calls the executor it selects.         *)
(***************************************************************************)
QueriableFieldsReturn(c) ==
    /\ pc[c] = "extractReturn"
    /\ Len(stack[c]) = 1
    /\ LET result == QueriableFields(Top(c).result)
           sanitized == [options[c] EXCEPT !.query = SanitizedQuery(@, result)]
           executor == SelectExecutor(isExternalTableID(options[c].tableId), sqsEnabled)
       IN  /\ queriable' = [queriable EXCEPT ![c] = Some(result)]
           /\ options' = [options EXCEPT ![c] = sanitized]
           /\ calls' = [calls EXCEPT
                 ![c] = @ \o <<Call("queryUtils", "removeInvalidFilters",
                                    options[c].tableId, None),
                               Call(executor, "search", Get(table[c]), Some(sanitized))>>]
    /\ stack' = [stack EXCEPT ![c] = <<>>]
    /\ pc' = [pc EXCEPT ![c] = "executor"]
    /\ UNCHANGED <<sqsEnabled, request, table, handledTables, response>>

\* the last call of the log: the one a call at "executor" awaits
LastCall(c) == calls[c][Len(calls[c])]

ExecutorReturns_Fallback(c) ==
    /\ pc[c] = "executor"
    /\ \E outcome \in ExecutorOutcomes :
         LET result == ExecutorResult(outcome, LastCall(c).api)
         IN  IF result.status = "error" /\ LastCall(c).api = "internal.sqs"
             THEN /\ calls' = [calls EXCEPT
                        ![c] = Append(@, [LastCall(c) EXCEPT !.api = "internal.lucene"])]
                  /\ UNCHANGED <<response, pc>>
             ELSE /\ response' = [response EXCEPT ![c] = result]
                  /\ pc' = [pc EXCEPT
                        ![c] = IF result.status = "ok" THEN "done" ELSE "failed"]
                  /\ calls' = calls
    /\ UNCHANGED <<sqsEnabled, request, options, table, stack, handledTables, queriable>>

(***************************************************************************)
(* The backend answers: its result is the result of the call, its failure  *)
(* the failure of the call.                                                *)
(***************************************************************************)
ExecutorReturns(c) ==
    /\ pc[c] = "executor"
    /\ \E outcome \in ExecutorOutcomes :
         LET result == ExecutorResult(outcome, LastCall(c).api)
         IN  /\ response' = [response EXCEPT ![c] = result]
             /\ pc' = [pc EXCEPT ![c] = IF result.status = "ok" THEN "done" ELSE "failed"]
    /\ UNCHANGED <<sqsEnabled, request, options, table, stack, handledTables,
                   queriable, calls>>

(***************************************************************************)
(* exportRows, fetch, fetchRaw and fetchView hand the call to pickApi's    *)
(* module.                                                                 *)
(***************************************************************************)
Routed(c, op) ==
    /\ pc[c] = "idle"
    /\ \E tableId \in RequestTableIds :
         /\ request' = [request EXCEPT ![c] = [NoRequest EXCEPT !.op = op,
                                                                !.tableId = tableId]]
         /\ calls' = [calls EXCEPT ![c] = <<Call(pickApi(tableId), op, tableId, None)>>]
    /\ pc' = [pc EXCEPT ![c] = "executor"]
    /\ UNCHANGED <<sqsEnabled, options, table, stack, handledTables, queriable, response>>

exportRows(c) == Routed(c, "exportRows")

fetch(c) == Routed(c, "fetch")

fetchRaw(c) == Routed(c, "fetchRaw")

fetchView(c) == Routed(c, "fetchView")

(***************************************************************************)
(* The database module: openDbs, Pouch, initialised, dbList and the        *)
(* functions over them.  A database object is [name, via, closed]: via is  *)
(* the function that made it, closed whether its close has run.            *)
(***************************************************************************)
MaxHandles == 3

DbNames == {"app_dev", "global-db"}

InitHasNotBeenCalled == "init has not been called"
OutsideTest == "Cannot be used outside test environment."

\* Array.prototype.indexOf: the 0-based index of the first x, -1 without one
indexOf(arr, x) ==
    IF \E i \in DOMAIN arr : arr[i] = x
    THEN (CHOOSE i \in DOMAIN arr : arr[i] = x /\ \A j \in 1..(i - 1) : arr[j] # x) - 1
    ELSE -1

\* Array.prototype.splice(start, deleteCount): a negative start counts from
\* the end of the array
splice(arr, start, deleteCount) ==
    LET len == Len(arr)
        actualStart == IF start < 0
                       THEN (IF len + start < 0 THEN 0 ELSE len + start)
                       ELSE (IF start > len THEN len ELSE start)
        actualCount == IF deleteCount < 0 THEN 0
                       ELSE IF deleteCount > len - actualStart THEN len - actualStart
                       ELSE deleteCount
    IN  SubSeq(arr, 1, actualStart) \o SubSeq(arr, actualStart + actualCount + 1, len)

checkInitialised_Never(isInitialised) == ""

\* checkInitialised: the message of the error it throws, "" when it returns
checkInitialised(isInitialised) ==
    IF ~isInitialised THEN InitHasNotBeenCalled ELSE ""

\* new Pouch(dbName, opts) and new PouchLike(dbName, opts)
NewDb(dbName, via) == [name |-> dbName, via |-> via, closed |-> FALSE]

\* init: Pouch = pouch.getPouch(opts); initialised = true
init ==
    /\ Pouch' = "PouchDB"
    /\ initialised' = TRUE
    /\ dbOutcome' = Outcome("init", "", initialised, 0, FALSE, openDbs)
    /\ UNCHANGED <<isTest, memoryLeakCheck, openDbs, dbList, dbs>>

getPouchDB ==
    /\ Len(dbs) < MaxHandles
    /\ \E dbName \in DbNames :
         LET threw == checkInitialised(initialised)
         IN  IF threw # ""
             THEN /\ dbOutcome' = Outcome("getPouchDB", threw, initialised, 0, FALSE, openDbs)
                  /\ UNCHANGED <<dbList, dbs, openDbs>>
             ELSE /\ dbList' = IF isTest THEN dbList \cup {dbName} ELSE dbList
                  /\ dbs' = Append(dbs, NewDb(dbName, "getPouchDB"))
                  /\ openDbs' = IF memoryLeakCheck THEN Append(openDbs, dbName) ELSE openDbs
                  /\ dbOutcome' = Outcome("getPouchDB", "", initialised, Len(dbs) + 1,
                                          FALSE, openDbs)
    /\ UNCHANGED <<isTest, memoryLeakCheck, Pouch, initialised>>

dangerousGetDB ==
    /\ Len(dbs) < MaxHandles
    /\ \E dbName \in DbNames :
         /\ dbs' = Append(dbs, NewDb(dbName, "dangerousGetDB"))
         /\ dbOutcome' = Outcome("dangerousGetDB", "", initialised, Len(dbs) + 1,
                                 FALSE, openDbs)
    /\ UNCHANGED <<isTest, memoryLeakCheck, Pouch, initialised, openDbs, dbList>>

closeDB_Propagates ==
    /\ \E db \in {0} \cup DOMAIN dbs :
         IF db = 0 \/ isTest
         THEN /\ dbOutcome' = Outcome("closeDB", "", initialised, db, FALSE, openDbs)
              /\ UNCHANGED <<openDbs, dbs>>
         ELSE /\ openDbs' = IF memoryLeakCheck
                            THEN splice(openDbs, indexOf(openDbs, dbs[db].name), 1)
                            ELSE openDbs
              /\ dbs' = [dbs EXCEPT ![db].closed = TRUE]
              /\ dbOutcome' = Outcome("closeDB",
                                      IF dbs[db].closed THEN "database is closed" ELSE "",
                                      initialised, db, dbs[db].closed, openDbs)
    /\ UNCHANGED <<isTest, memoryLeakCheck, Pouch, initialised, dbList>>

\* closeDB(db); db = 0 stands for a missing db.  db.close raises when the
\* database is closed already, and the catch block ignores what it raises.
closeDB ==
    /\ \E db \in {0} \cup DOMAIN dbs :
         IF db = 0 \/ isTest
         THEN /\ dbOutcome' = Outcome("closeDB", "", initialised, db, FALSE, openDbs)
              /\ UNCHANGED <<openDbs, dbs>>
         ELSE /\ openDbs' = IF memoryLeakCheck
                            THEN splice(openDbs, indexOf(openDbs, dbs[db].name), 1)
                            ELSE openDbs
              /\ dbs' = [dbs EXCEPT ![db].closed = TRUE]
              /\ dbOutcome' = Outcome("closeDB", "", initialised, db, dbs[db].closed,
                                      openDbs)
    /\ UNCHANGED <<isTest, memoryLeakCheck, Pouch, initialised, dbList>>

\* doWithDB: the callback is given a database of dangerousGetDB, and what it
\* returns or throws is what doWithDB returns or throws
doWithDB ==
    /\ Len(dbs) < MaxHandles
    /\ \E dbName \in DbNames, cbThrows \in BOOLEAN :
         /\ dbs' = Append(dbs, NewDb(dbName, "dangerousGetDB"))
         /\ dbOutcome' = Outcome("doWithDB", IF cbThrows THEN "callback failed" ELSE "",
                                 initialised, Len(dbs) + 1, FALSE, openDbs)
    /\ UNCHANGED <<isTest, memoryLeakCheck, Pouch, initialised, openDbs, dbList>>

allDbs ==
    /\ dbOutcome' = Outcome("allDbs",
                            IF ~isTest THEN OutsideTest ELSE checkInitialised(initialised),
                            initialised, 0, FALSE, openDbs)
    /\ UNCHANGED <<isTest, memoryLeakCheck, Pouch, initialised, openDbs, dbList, dbs>>

Next ==
    \/ \E c \in DOMAIN pc : Search(c) /\ UNCHANGED dbVars
    \/ \E c \in DOMAIN pc : GetTableReturns(c) /\ UNCHANGED dbVars
    \/ \E c \in DOMAIN pc : GetRelatedTableReturns(c) /\ UNCHANGED dbVars
    \/ \E c \in DOMAIN pc : ExtractReturns(c) /\ UNCHANGED dbVars
    \/ \E c \in DOMAIN pc : QueriableFieldsReturn(c) /\ UNCHANGED dbVars
    \/ \E c \in DOMAIN pc : ExecutorReturns(c) /\ UNCHANGED dbVars
    \/ \E c \in DOMAIN pc : exportRows(c) /\ UNCHANGED dbVars
    \/ \E c \in DOMAIN pc : fetch(c) /\ UNCHANGED dbVars
    \/ \E c \in DOMAIN pc : fetchRaw(c) /\ UNCHANGED dbVars
    \/ \E c \in DOMAIN pc : fetchView(c) /\ UNCHANGED dbVars

Spec == Init /\ [][Next]_vars

\* the database module under each setting of the environment
InitDb ==
    /\ sqsEnabled = FALSE
    /\ pc = [c \in Calls |-> "idle"]
    /\ request = [c \in Calls |-> NoRequest]
    /\ options = [c \in Calls |-> NoOptions]
    /\ table = [c \in Calls |-> None]
    /\ stack = [c \in Calls |-> <<>>]
    /\ handledTables = [c \in Calls |-> {}]
    /\ queriable = [c \in Calls |-> None]
    /\ calls = [c \in Calls |-> <<>>]
    /\ response = [c \in Calls |-> Pending]
    /\ isTest \in BOOLEAN
    /\ memoryLeakCheck \in BOOLEAN
    /\ ModuleLoaded

NextDb ==
    \/ init /\ UNCHANGED searchVars
    \/ getPouchDB /\ UNCHANGED searchVars
    \/ dangerousGetDB /\ UNCHANGED searchVars
    \/ closeDB /\ UNCHANGED searchVars
    \/ doWithDB /\ UNCHANGED searchVars
    \/ allDbs /\ UNCHANGED searchVars

SpecDb == InitDb /\ [][NextDb]_vars

(***************************************************************************)
(* Two search calls at a time.  getQueriableFields is also given as the    *)
(* function it computes when nothing runs between its steps.               *)
(***************************************************************************)
\* extractTableFields from the key fields[i] on: acc is [result, handledTables]
RECURSIVE extractTableFields(_, _, _, _)
extractTableFields(tableId, fields, i, acc) ==
    IF i > Len(fields)
    THEN acc
    ELSE LET tbl == TableStore[tableId]
             field == fields[i]
             subSchema == tbl.schema[field]
         IN  IF subSchema.type = LINK
             THEN IF GuardKey(tbl, subSchema) \in acc.handledTables
                  THEN extractTableFields(tableId, fields, i + 1, acc)
                  ELSE LET relatedTable == TableStore[subSchema.tableId]
                           related == extractTableFields(
                                          relatedTable._id,
                                          NewFrame(relatedTable, relatedTable.keys, {}).fields,
                                          1,
                                          [result |-> <<>>,
                                           handledTables |-> acc.handledTables
                                               \cup {MarkKey(tbl, subSchema)}])
                       IN  extractTableFields(
                               tableId, fields, i + 1,
                               [result |-> WithRelatedFields(acc.result, subSchema,
                                                             relatedTable, related.result),
                                handledTables |-> related.handledTables])
             ELSE extractTableFields(tableId, fields, i + 1,
                                     [acc EXCEPT !.result = Append(@, field)])

\* getQueriableFields(fields, table) run on its own: [result, handledTables]
getQueriableFields(fields, tbl) ==
    LET root == extractTableFields(tbl._id, NewFrame(tbl, fields, {}).fields, 1,
                                   [result |-> <<>>, handledTables |-> {tbl._id}])
    IN  [result |-> QueriableFields(root.result), handledTables |-> root.handledTables]

ConcurrentCalls == {"call1", "call2"}

\* the tables the two calls search: those on which the traversal ends
ConcurrentTableIds == {ta_t, ta_a, ta_b, ta_s, ta_o, ta_g}

InitConcurrent ==
    /\ sqsEnabled = FALSE
    /\ pc = [c \in ConcurrentCalls |-> "idle"]
    /\ request = [c \in ConcurrentCalls |-> NoRequest]
    /\ options = [c \in ConcurrentCalls |-> NoOptions]
    /\ table = [c \in ConcurrentCalls |-> None]
    /\ stack = [c \in ConcurrentCalls |-> <<>>]
    /\ handledTables = [c \in ConcurrentCalls |-> {}]
    /\ queriable = [c \in ConcurrentCalls |-> None]
    /\ calls = [c \in ConcurrentCalls |-> <<>>]
    /\ response = [c \in ConcurrentCalls |-> Pending]
    /\ isTest = FALSE
    /\ memoryLeakCheck = FALSE
    /\ ModuleLoaded

\* search of one of ConcurrentTableIds, with a field list and no filter
SearchFields(c) ==
    /\ pc[c] = "idle"
    /\ \E tableId \in ConcurrentTableIds :
       \E fields \in FieldLists(tableId) :
           SearchOf(c, tableId, None, None, fields)

NextConcurrent ==
    \/ \E c \in DOMAIN pc : SearchFields(c) /\ UNCHANGED dbVars
    \/ \E c \in DOMAIN pc : GetTableReturns(c) /\ UNCHANGED dbVars
    \/ \E c \in DOMAIN pc : GetRelatedTableReturns(c) /\ UNCHANGED dbVars
    \/ \E c \in DOMAIN pc : ExtractReturns(c) /\ UNCHANGED dbVars
    \/ \E c \in DOMAIN pc : QueriableFieldsReturn(c) /\ UNCHANGED dbVars
    \/ \E c \in DOMAIN pc : ExecutorReturns(c) /\ UNCHANGED dbVars

SpecConcurrent == InitConcurrent /\ [][NextConcurrent]_vars

(***************************************************************************)
(* Vocabulary of the properties.                                           *)
(***************************************************************************)
SearchCalls == {c \in DOMAIN pc : request[c].op = "search"}

\* the calls search made to an executor, in order
ExecutorCalls(c) == SelectSeq(calls[c], LAMBDA k : k.fn = "search")

\* the getTable calls made so far, in order
GetTableCalls(c) == SelectSeq(calls[c], LAMBDA k : k.fn = "getTable")

\* the filter tree of the request after cleanup
CleanedQuery(c) ==
    cleanupQuery(IF IsSome(request[c].query) THEN Get(request[c].query) ELSE EmptyQuery)

\* the paths the request has a condition on
RequestedConditions(c) == Get(CleanedQuery(c).equal)

\* the module an executor belongs to
BackendOf(api) == IF api = "external" THEN "external" ELSE "internal"

\* number of "." in a path
Dots(path) == Cardinality({i \in DOMAIN path : path[i] = "."})

\* the keys of a table that are not link fields
PlainKeys(tableId) ==
    {k \in Range(KeysOf(tableId)) : TableStore[tableId].schema[k].type # LINK}

LinkKeys(tableId) ==
    {k \in Range(KeysOf(tableId)) : TableStore[tableId].schema[k].type = LINK}

(***************************************************************************)
(* C1: a search whose cleaned filter tree has no active condition and      *)
(* whose onEmptyFilter is RETURN_NONE has returned an empty rows sequence  *)
(* and has called no executor (nor any collaborator after the cleanup).    *)
(***************************************************************************)
C1_EmptyFilterReturnsNone ==
    \A c \in SearchCalls :
        (~hasFilters(CleanedQuery(c)) /\ CleanedQuery(c).onEmptyFilter = RETURN_NONE)
            => /\ pc[c] = "done"
               /\ response[c].status = "ok"
               /\ response[c].rows = <<>>
               /\ ExecutorCalls(c) = <<>>
               /\ GetTableCalls(c) = <<>>

\* a search for a table that does not exist, with a null filter group and
\* RETURN_NONE, has returned no rows
C1_Witness ==
    \E c \in SearchCalls :
        /\ request[c].tableId = ta_m
        /\ request[c].query = Some([equal |-> None, onEmptyFilter |-> RETURN_NONE])
        /\ pc[c] = "done"
        /\ response[c] = Ok(<<>>)
        /\ ExecutorCalls(c) = <<>>

(***************************************************************************)
(* C2: a search that reached dispatch has called exactly one executor:     *)
(* external for an external table id whatever the tenant flag, else sqs    *)
(* when the flag is on, else lucene.                                       *)
(***************************************************************************)
C2_DispatchOrder ==
    \A c \in SearchCalls :
        IsSome(queriable[c])
            => /\ Len(ExecutorCalls(c)) = 1
               /\ ExecutorCalls(c)[1].api \in Executors
               /\ request[c].tableId \in ExternalTableIds
                    => ExecutorCalls(c)[1].api = "external"
               /\ (request[c].tableId \notin ExternalTableIds /\ sqsEnabled)
                    => ExecutorCalls(c)[1].api = "internal.sqs"
               /\ (request[c].tableId \notin ExternalTableIds /\ ~sqsEnabled)
                    => ExecutorCalls(c)[1].api = "internal.lucene"

\* an external table searched by a tenant with the sqs flag on went to the
\* external executor
C2_Witness ==
    \E c \in SearchCalls :
        /\ request[c].tableId = ds_x
        /\ sqsEnabled
        /\ pc[c] = "done"
        /\ Len(ExecutorCalls(c)) = 1
        /\ ExecutorCalls(c)[1].api = "external"

(***************************************************************************)
(* C3: getQueriableFields terminates.  extractTableFields is a function of *)
(* its table, its allowed fields and handledTables, so an activation       *)
(* entered with the table, the allowed fields and the handledTables of an  *)
(* activation that is still running re-enters itself without end:          *)
(* termination requires that no two activations of the stack agree on the  *)
(* three.                                                                  *)
(***************************************************************************)
C3_Terminates ==
    \A c \in SearchCalls :
        \A i, j \in DOMAIN stack[c] :
            i < j => ~ /\ stack[c][i].table = stack[c][j].table
                       /\ stack[c][i].allowed = stack[c][j].allowed
                       /\ stack[c][i].entry = stack[c][j].entry

\* the other table of the two-table cycle ta_a <-> ta_b
Peer(tableId) == IF tableId = ta_a THEN ta_b ELSE ta_a

\* the fields of the other table of the cycle under both qualifiers, for the
\* link fields among links
PeerPaths(tableId, links) ==
    {TableStore[tableId].schema[l].name \o Dot \o k :
        l \in links, k \in PlainKeys(Peer(tableId))}
      \cup {TableStore[Peer(tableId)].name \o Dot \o k :
              l \in links, k \in PlainKeys(Peer(tableId))}

(***************************************************************************)
(* C4 as stated: on a table of the two-table cycle getQueriableFields      *)
(* never nests more than two activations, and what it returns holds every  *)
(* non-link field of the other table under the link's name and under the   *)
(* other table's name, and no path that goes back through the back-link    *)
(* (no path with two qualifiers).                                          *)
(***************************************************************************)
C4_TwoTableCycle_AnyFields ==
    \A c \in SearchCalls :
        request[c].tableId \in {ta_a, ta_b}
            => /\ Len(stack[c]) <= 2
               /\ IsSome(queriable[c])
                    => /\ \A path \in Range(Get(queriable[c])) : Dots(path) <= 1
                       /\ PeerPaths(request[c].tableId, LinkKeys(request[c].tableId))
                            \subseteq Range(Get(queriable[c]))

(***************************************************************************)
(* C4, amended: the same, for the link fields that are among the fields    *)
(* getQueriableFields is called with (options.fields after the visibility  *)
(* filter); a link field that is not requested contributes no path.        *)
(***************************************************************************)
C4_TwoTableCycle ==
    \A c \in SearchCalls :
        request[c].tableId \in {ta_a, ta_b}
            => /\ Len(stack[c]) <= 2
               /\ IsSome(queriable[c])
                    => /\ \A path \in Range(Get(queriable[c])) : Dots(path) <= 1
                       /\ {path \in Range(Get(queriable[c])) : Dots(path) = 1}
                            = PeerPaths(request[c].tableId,
                                        LinkKeys(request[c].tableId)
                                          \cap Range(Get(options[c].fields)))

\* a search of ta_a that lists its link field got the fields of ta_b under
\* both qualifiers
C4_Witness ==
    \E c \in SearchCalls :
        /\ request[c].tableId = ta_a
        /\ request[c].fields = Some(<<f_toB>>)
        /\ IsSome(queriable[c])
        /\ Range(Get(queriable[c]))
             = {IdField, f_toB \o Dot \o f_title, n_Bee \o Dot \o f_title}

(***************************************************************************)
(* C5: the filter tree handed to the executor holds the conditions of the  *)
(* request on the paths getQueriableFields returned and no other, and a    *)
(* search fails only with NotFound of a table lookup or with the failure   *)
(* of the executor it called.                                              *)
(***************************************************************************)
C5_InvalidFiltersDropped ==
    \A c \in SearchCalls :
        /\ \A i \in DOMAIN ExecutorCalls(c) :
              /\ IsSome(queriable[c])
              /\ Get(ExecutorCalls(c)[i].options).query.equal
                   = Some(RequestedConditions(c) \cap Range(Get(queriable[c])))
        /\ pc[c] = "failed"
             => \/ /\ response[c].error = "NotFound"
                   /\ \E i \in DOMAIN GetTableCalls(c) :
                          GetTableCalls(c)[i].tableId \notin TableIds
                \/ /\ response[c].error = "BackendFailure"
                   /\ ExecutorCalls(c) # <<>>

\* a search of ta_a with conditions on a field that does not exist and on
\* queriable paths called its executor with the queriable ones only
C5_Witness ==
    \E c \in SearchCalls :
        /\ request[c].tableId = ta_a
        /\ f_ghost \in RequestedConditions(c)
        /\ pc[c] = "done"
        /\ Len(ExecutorCalls(c)) = 1
        /\ Get(ExecutorCalls(c)[1].options).query.equal
             = Some({IdField, f_name, f_toB \o Dot \o f_title, n_Bee \o Dot \o f_title})

(***************************************************************************)
(* C6: for a table without link fields, what getQueriableFields returns is *)
(* exactly options.fields after the visibility filter, plus _id.           *)
(***************************************************************************)
C6_FlatTableFields ==
    \A c \in SearchCalls :
        (IsSome(queriable[c]) /\ LinkKeys(request[c].tableId) = {})
            => Range(Get(queriable[c])) = Range(Get(options[c].fields)) \cup {IdField}

(***************************************************************************)
(* C7: search calls at most one executor, and when that executor fails,    *)
(* search has failed with the executor's error and has called no other.    *)
(***************************************************************************)
C7_NoFallback ==
    \A c \in SearchCalls :
        /\ Len(ExecutorCalls(c)) <= 1
        /\ response[c].error = "BackendFailure"
             => /\ pc[c] = "failed"
                /\ Len(ExecutorCalls(c)) = 1
                /\ response[c] = Err("BackendFailure", ExecutorCalls(c)[1].api)

\* the sqs executor failed and search failed with its error
C7_Witness ==
    \E c \in SearchCalls :
        /\ pc[c] = "failed"
        /\ response[c] = Err("BackendFailure", "internal.sqs")
        /\ Len(ExecutorCalls(c)) = 1
        /\ ExecutorCalls(c)[1].api = "internal.sqs"

(***************************************************************************)
(* C8: once getTable was called for an identifier that does not resolve,   *)
(* search is waiting for that call or has failed with NotFound; no field   *)
(* set was returned and no executor was called.                            *)
(***************************************************************************)
C8_NotFoundPropagates ==
    \A c \in SearchCalls :
        (\E i \in DOMAIN GetTableCalls(c) : GetTableCalls(c)[i].tableId \notin TableIds)
            => /\ ExecutorCalls(c) = <<>>
               /\ queriable[c] = None
               /\ \/ /\ pc[c] \in {"getTable", "getRelatedTable"}
                     /\ LastCall(c).fn = "getTable"
                     /\ LastCall(c).tableId \notin TableIds
                  \/ /\ pc[c] = "failed"
                     /\ response[c] = Err("NotFound", "sdk.tables")

\* the searched table resolved, the table of its link field did not
C8_Witness ==
    \E c \in SearchCalls :
        /\ request[c].tableId = ta_d
        /\ table[c] = Some(ta_d)
        /\ Len(GetTableCalls(c)) = 2
        /\ GetTableCalls(c)[2].tableId = ta_m
        /\ pc[c] = "failed"
        /\ response[c] = Err("NotFound", "sdk.tables")

(***************************************************************************)
(* C9: exportRows, fetch, fetchRaw and fetchView call the module chosen by *)
(* the table's locality alone, which is the module of the executor search  *)
(* selects for that table, whether the tenant flag is on or off.           *)
(***************************************************************************)
C9_SameBackend ==
    \A c \in DOMAIN pc :
        LET locality == IF request[c].tableId \in ExternalTableIds
                        THEN "external" ELSE "internal"
        IN  /\ request[c].op \in {"exportRows", "fetch", "fetchRaw", "fetchView"}
                 => /\ Len(calls[c]) = 1
                    /\ calls[c][1].fn = request[c].op
                    /\ calls[c][1].api = locality
                    /\ calls[c][1].api
                         = BackendOf(SelectExecutor(isExternalTableID(request[c].tableId),
                                                    sqsEnabled))
            /\ (request[c].op = "search" /\ ExecutorCalls(c) # <<>>)
                 => BackendOf(ExecutorCalls(c)[1].api) = locality

\* fetchRaw of an external table, tenant flag on, went to the external module
C9_Witness ==
    \E c \in DOMAIN pc :
        /\ request[c].op = "fetchRaw"
        /\ request[c].tableId = ds_x
        /\ sqsEnabled
        /\ pc[c] = "done"
        /\ calls[c][1].api = "external"

(***************************************************************************)
(* C10 as stated: the sortOrder handed to an executor, when set (to a      *)
(* token that is not empty), is ascending or descending.                   *)
(***************************************************************************)
C10_SortOrderInEnum ==
    \A c \in SearchCalls :
        \A i \in DOMAIN ExecutorCalls(c) :
            LET handed == Get(ExecutorCalls(c)[i].options).sortOrder
            IN  (IsSome(handed) /\ Get(handed) # s_empty) => Get(handed) \in SortOrder

(***************************************************************************)
(* C10, amended: the sortOrder handed to an executor is the token of the   *)
(* request in lower case (an unset or empty token as it is); it is         *)
(* ascending or descending exactly when the token of the request is one of *)
(* the two in some mix of cases.                                           *)
(***************************************************************************)
C10_SortOrderLowerCased ==
    \A c \in SearchCalls :
        \A i \in DOMAIN ExecutorCalls(c) :
            LET handed == Get(ExecutorCalls(c)[i].options).sortOrder
                token == request[c].sortOrder
            IN  /\ token = None => handed = None
                /\ token = Some(s_empty) => handed = Some(s_empty)
                /\ token = Some(s_descending) => handed = Some(s_descending)
                /\ token = Some(s_ASCENDING) => handed = Some(s_ascending)
                /\ token = Some(s_Up) => handed = Some(s_up)
                /\ (IsSome(handed) /\ Get(handed) \in SortOrder)
                     <=> token \in {Some(s_descending), Some(s_ASCENDING)}

\* ASCENDING was handed to the executor as ascending
C10_Witness ==
    \E c \in SearchCalls :
        /\ request[c].sortOrder = Some(s_ASCENDING)
        /\ Len(ExecutorCalls(c)) = 1
        /\ Get(ExecutorCalls(c)[1].options).sortOrder = Some(s_ascending)

(***************************************************************************)
(* Vocabulary of the properties of getQueriableFields.                     *)
(***************************************************************************)
\* the getTable calls made by activations of extractTableFields, in order
RelatedTableCalls(c) == SelectSeq(calls[c], LAMBDA k : k.fn = "getTable" /\ k.from # <<>>)

\* the paths of a result behind a qualifier: p for every qualifier.p in it
Suffixes(paths, qualifier) ==
    {SubSeq(p, Len(qualifier) + 2, Len(p)) :
        p \in {q \in Range(paths) :
                 /\ Len(q) > Len(qualifier) + 1
                 /\ SubSeq(q, 1, Len(qualifier) + 1) = qualifier \o Dot}}

\* the results of extractTableFields at hand in a call, each with its table:
\* those of the activations on the stack and the one getQueriableFields
\* returned
ResultsAtHand(c) ==
    {[table |-> stack[c][i].table, result |-> stack[c][i].result] : i \in DOMAIN stack[c]}
      \cup (IF IsSome(queriable[c])
            THEN {[table |-> Get(table[c]), result |-> Get(queriable[c])]}
            ELSE {})

\* the link fields of a table whose related table exists
ResolvedLinkKeys(tableId) ==
    {k \in LinkKeys(tableId) : TableStore[tableId].schema[k].tableId \in TableIds}

\* whether the request asks for the key of the searched table
Requested(c, key) ==
    ~IsSome(request[c].fields) \/ includes(Get(request[c].fields), key)

(***************************************************************************)
(* C11: within one traversal no directed edge is recursed along twice: no  *)
(* two getTable calls of the field expansion are made from the same table  *)
(* for the same related table.                                             *)
(***************************************************************************)
C11_EdgeFollowedOnce ==
    \A c \in SearchCalls :
        \A i, j \in DOMAIN RelatedTableCalls(c) :
            (/\ RelatedTableCalls(c)[i].from = RelatedTableCalls(c)[j].from
             /\ RelatedTableCalls(c)[i].tableId = RelatedTableCalls(c)[j].tableId)
                => i = j

(***************************************************************************)
(* C12: in every result of extractTableFields, at every depth, the paths   *)
(* qualified by the name of a link field are also there qualified by the   *)
(* name of its related table, and the paths qualified by a table's name    *)
(* are those qualified by the names of the link fields to that table.      *)
(***************************************************************************)
C12_BothAliases ==
    \A c \in SearchCalls :
        \A r \in ResultsAtHand(c) :
            \A k \in ResolvedLinkKeys(r.table) :
                LET subSchema == TableStore[r.table].schema[k]
                    relatedTable == TableStore[subSchema.tableId]
                    sameTable == {l \in ResolvedLinkKeys(r.table) :
                                     TableStore[r.table].schema[l].tableId = relatedTable._id}
                IN  /\ Suffixes(r.result, subSchema.name)
                          \subseteq Suffixes(r.result, relatedTable.name)
                    /\ Suffixes(r.result, relatedTable.name)
                          = UNION {Suffixes(r.result, TableStore[r.table].schema[l].name) :
                                      l \in sameTable}

\* orders was searched: the fields of customers and, one level down, those of
\* Tee are in the result under both qualifiers
C12_Witness ==
    \E c \in SearchCalls :
        /\ request[c].tableId = ta_o
        /\ IsSome(queriable[c])
        /\ Suffixes(Get(queriable[c]), f_customer)
             = {f_email, f_home \o Dot \o f_age, n_Tee \o Dot \o f_age,
                f_home \o Dot \o f_Name, n_Tee \o Dot \o f_Name,
                f_home \o Dot \o f_secret, n_Tee \o Dot \o f_secret}
        /\ Suffixes(Get(queriable[c]), n_customers) = Suffixes(Get(queriable[c]), f_customer)

(***************************************************************************)
(* C13: in the result of getQueriableFields, a link field of the searched  *)
(* table that the request asks for brings every non-link field of its      *)
(* related table, under both qualifiers, whatever the requested list       *)
(* names; a link field the request does not ask for brings no path.        *)
(***************************************************************************)
C13_WholeRelatedSchema ==
    \A c \in SearchCalls :
        IsSome(queriable[c]) =>
            \A k \in LinkKeys(Get(table[c])) :
                LET subSchema == TableStore[Get(table[c])].schema[k]
                IN  IF Requested(c, k)
                    THEN /\ subSchema.tableId \in TableIds
                         /\ \A f \in PlainKeys(subSchema.tableId) :
                              /\ includes(Get(queriable[c]), subSchema.name \o Dot \o f)
                              /\ includes(Get(queriable[c]),
                                          TableStore[subSchema.tableId].name \o Dot \o f)
                    ELSE Suffixes(Get(queriable[c]), subSchema.name) = {}

\* orders was searched for the field customer alone: email of customers is in
\* the result; Gg was searched for its field first alone: second brought nothing
C13_Witness ==
    \E c \in SearchCalls :
        /\ request[c].tableId = ta_o
        /\ request[c].fields = Some(<<f_customer>>)
        /\ IsSome(queriable[c])
        /\ includes(Get(queriable[c]), f_customer \o Dot \o f_email)
        /\ includes(Get(queriable[c]), n_customers \o Dot \o f_email)

(***************************************************************************)
(* C14: the calls of a search are made in this order: filter cleanup, the  *)
(* getTable of the searched table, searchInputMapping, the getTable calls  *)
(* of the field expansion, removeInvalidFilters, the executor; each but    *)
(* the cleanup and the related getTable calls is made once at most, and    *)
(* the executor is called after all the others have been.                  *)
(***************************************************************************)
Phase(call) ==
    IF call.fn \in {"cleanupQuery", "fixupFilterArrays"} THEN 1
    ELSE IF call.fn = "getTable" /\ call.from = <<>> THEN 2
    ELSE IF call.fn = "searchInputMapping" THEN 3
    ELSE IF call.fn = "getTable" THEN 4
    ELSE IF call.fn = "removeInvalidFilters" THEN 5
    ELSE 6

PhaseCount(c, phase) == Cardinality({i \in DOMAIN calls[c] : Phase(calls[c][i]) = phase})

C14_EventOrder ==
    \A c \in SearchCalls :
        /\ \A i, j \in DOMAIN calls[c] : i < j => Phase(calls[c][i]) <= Phase(calls[c][j])
        /\ PhaseCount(c, 1) = 2
        /\ \A phase \in {2, 3, 5, 6} : PhaseCount(c, phase) <= 1
        /\ PhaseCount(c, 6) = 1
             => /\ \A phase \in {2, 3, 5} : PhaseCount(c, phase) = 1
                /\ Phase(LastCall(c)) = 6
        /\ (pc[c] = "done" /\ ~ShortCircuits(CleanedQuery(c))) => PhaseCount(c, 6) = 1

\* orders was searched to the end: two related tables were fetched between
\* searchInputMapping and removeInvalidFilters
C14_Witness ==
    \E c \in SearchCalls :
        /\ request[c].tableId = ta_o
        /\ pc[c] = "done"
        /\ PhaseCount(c, 4) = 2
        /\ PhaseCount(c, 6) = 1

(***************************************************************************)
(* C15: with two search calls under way, each getQueriableFields returns   *)
(* what it returns run on its own for the same request, and handledTables  *)
(* of a call never holds an entry its own traversal does not add.          *)
(***************************************************************************)
C15_FreshVisitedSet ==
    \A c \in SearchCalls :
        IsSome(table[c]) =>
            LET tbl == TableStore[Get(table[c])]
                alone == getQueriableFields(RequestedFields(request[c].fields, tbl), tbl)
            IN  /\ handledTables[c] \subseteq alone.handledTables
                /\ IsSome(queriable[c]) => Get(queriable[c]) = alone.result

\* the search of Aa is suspended in its field expansion, with an entry in its
\* handledTables, and the search of Bee, begun after it, has its fields
C15_Witness ==
    /\ DOMAIN pc = ConcurrentCalls
    /\ request["call1"].tableId = ta_a
    /\ pc["call1"] = "getRelatedTable"
    /\ EdgeKey(ta_b, ta_a) \in handledTables["call1"]
    /\ request["call2"].tableId = ta_b
    /\ queriable["call2"]
         = Some(<<IdField, f_title, f_toA \o Dot \o f_name, n_Aa \o Dot \o f_name>>)

(***************************************************************************)
(* C16: the array getQueriableFields returns holds _id, whatever the       *)
(* schema (none has an _id key) and the requested fields.                  *)
(***************************************************************************)
C16_IdAlwaysQueriable ==
    \A c \in SearchCalls :
        IsSome(queriable[c]) => includes(Get(queriable[c]), IdField)

\* an empty field list was requested: _id is all that can be filtered on
C16_Witness ==
    \E c \in SearchCalls :
        /\ request[c].fields = Some(<<>>)
        /\ IdField \notin Range(KeysOf(request[c].tableId))
        /\ queriable[c] = Some(<<IdField>>)

(***************************************************************************)
(* C17: every path without a dot in the array getQueriableFields returns,  *)
(* other than _id, is a key of the searched table that is no link field    *)
(* and is not hidden.                                                      *)
(***************************************************************************)
C17_RootFieldsVisible ==
    \A c \in SearchCalls :
        IsSome(queriable[c]) =>
            \A path \in Range(Get(queriable[c])) :
                (Dots(path) = 0 /\ path # IdField)
                    => /\ path \in PlainKeys(Get(table[c]))
                       /\ TableStore[Get(table[c])].schema[path].visible # "false"

(***************************************************************************)
(* Vocabulary of the properties of the database module.                    *)
(***************************************************************************)
\* how many times x is in arr
Count(arr, x) == Cardinality({i \in DOMAIN arr : arr[i] = x})

\* the databases of getPouchDB with the name that closeDB was not called with
OpenedNotClosed(dbName) ==
    {db \in DOMAIN dbs :
        dbs[db].name = dbName /\ dbs[db].via = "getPouchDB" /\ ~dbs[db].closed}

(***************************************************************************)
(* C18 as stated: getPouchDB and allDbs throw 'init has not been called'   *)
(* exactly when they are called before init; dangerousGetDB and doWithDB   *)
(* never throw it.                                                         *)
(***************************************************************************)
C18_FailBeforeInit ==
    /\ dbOutcome.op \in {"getPouchDB", "allDbs"}
         => (dbOutcome.threw = InitHasNotBeenCalled <=> ~dbOutcome.initialised)
    /\ dbOutcome.op \in {"dangerousGetDB", "doWithDB"}
         => dbOutcome.threw # InitHasNotBeenCalled

(***************************************************************************)
(* C18, amended: getPouchDB throws 'init has not been called' exactly when *)
(* it is called before init; allDbs does so in the test environment, and   *)
(* outside of it always throws 'Cannot be used outside test environment.'; *)
(* dangerousGetDB and doWithDB never throw 'init has not been called'.     *)
(* The flag is set exactly when init has set Pouch.                        *)
(***************************************************************************)
C18_InitGate ==
    /\ dbOutcome.op = "getPouchDB"
         => (dbOutcome.threw = InitHasNotBeenCalled <=> ~dbOutcome.initialised)
    /\ (dbOutcome.op = "allDbs" /\ isTest)
         => (dbOutcome.threw = InitHasNotBeenCalled <=> ~dbOutcome.initialised)
    /\ (dbOutcome.op = "allDbs" /\ ~isTest) => dbOutcome.threw = OutsideTest
    /\ dbOutcome.op \in {"dangerousGetDB", "doWithDB"}
         => dbOutcome.threw # InitHasNotBeenCalled
    /\ dbOutcome.op = "init" => initialised
    /\ initialised <=> Pouch = "PouchDB"
    /\ dbOutcome.initialised => initialised

\* in the test environment allDbs returned after init and a getPouchDB
C18_Witness ==
    /\ isTest
    /\ dbOutcome.op = "allDbs"
    /\ dbOutcome.initialised
    /\ dbOutcome.threw = ""
    /\ dbList # {}

(***************************************************************************)
(* C19: closeDB never throws; called without a db or in the test           *)
(* environment it closes nothing, and an error of db.close is ignored.     *)
(***************************************************************************)
C19_CloseNeverThrows ==
    /\ dbOutcome.op = "closeDB" => dbOutcome.threw = ""
    /\ (dbOutcome.op = "closeDB" /\ (dbOutcome.db = 0 \/ isTest)) => ~dbOutcome.closeRaised
    /\ isTest => \A db \in DOMAIN dbs : ~dbs[db].closed

\* a closed database was closed again: db.close raised, closeDB returned
C19_Witness ==
    /\ dbOutcome.op = "closeDB"
    /\ dbOutcome.db # 0
    /\ dbOutcome.closeRaised
    /\ dbOutcome.threw = ""

(***************************************************************************)
(* C20: with MEMORY_LEAK_CHECK on outside the test environment, openDbs    *)
(* holds each name as many times as there are databases of getPouchDB with *)
(* that name not yet closed.                                               *)
(***************************************************************************)
C20_OpenDbsExact ==
    (memoryLeakCheck /\ ~isTest)
        => \A dbName \in DbNames :
              Count(openDbs, dbName) = Cardinality(OpenedNotClosed(dbName))

=============================================================================
